---- MODULE Spec2Model ----
(***************************************************************************)
(* Model of convert.py: the .saber -> ReeSabers preset converter.          *)
(*                                                                         *)
(* Text is a sequence of Unicode code points, bytes are a sequence of      *)
(* integers 0..255, base64 text is a sequence of sextet values (0..63)     *)
(* with B64Pad for '='.  The character tables are those of the Unicode     *)
(* database of the interpreter (Unicode 14.0.0).                           *)
(***************************************************************************)
EXTENDS Integers, Sequences, FiniteSets, TLC

(***************************************************************************)
(* Bounds of the model.                                                    *)
(***************************************************************************)
MaxObjs == 2
MaxNameLen == 3
MaxTokens == 2

(***************************************************************************)
(* Characters.                                                             *)
(***************************************************************************)
\* the code points from 128 up for which str.isalnum() holds, as ranges
AlnumRanges ==
  {
    <<170, 170>>, <<178, 179>>, <<181, 181>>, <<185, 186>>, <<188, 190>>, <<192, 214>>,
    <<216, 246>>, <<248, 705>>, <<710, 721>>, <<736, 740>>, <<748, 748>>, <<750, 750>>,
    <<880, 884>>, <<886, 887>>, <<890, 893>>, <<895, 895>>, <<902, 902>>, <<904, 906>>,
    <<908, 908>>, <<910, 929>>, <<931, 1013>>, <<1015, 1153>>, <<1162, 1327>>, <<1329, 1366>>,
    <<1369, 1369>>, <<1376, 1416>>, <<1488, 1514>>, <<1519, 1522>>, <<1568, 1610>>, <<1632, 1641>>,
    <<1646, 1647>>, <<1649, 1747>>, <<1749, 1749>>, <<1765, 1766>>, <<1774, 1788>>, <<1791, 1791>>,
    <<1808, 1808>>, <<1810, 1839>>, <<1869, 1957>>, <<1969, 1969>>, <<1984, 2026>>, <<2036, 2037>>,
    <<2042, 2042>>, <<2048, 2069>>, <<2074, 2074>>, <<2084, 2084>>, <<2088, 2088>>, <<2112, 2136>>,
    <<2144, 2154>>, <<2160, 2183>>, <<2185, 2190>>, <<2208, 2249>>, <<2308, 2361>>, <<2365, 2365>>,
    <<2384, 2384>>, <<2392, 2401>>, <<2406, 2415>>, <<2417, 2432>>, <<2437, 2444>>, <<2447, 2448>>,
    <<2451, 2472>>, <<2474, 2480>>, <<2482, 2482>>, <<2486, 2489>>, <<2493, 2493>>, <<2510, 2510>>,
    <<2524, 2525>>, <<2527, 2529>>, <<2534, 2545>>, <<2548, 2553>>, <<2556, 2556>>, <<2565, 2570>>,
    <<2575, 2576>>, <<2579, 2600>>, <<2602, 2608>>, <<2610, 2611>>, <<2613, 2614>>, <<2616, 2617>>,
    <<2649, 2652>>, <<2654, 2654>>, <<2662, 2671>>, <<2674, 2676>>, <<2693, 2701>>, <<2703, 2705>>,
    <<2707, 2728>>, <<2730, 2736>>, <<2738, 2739>>, <<2741, 2745>>, <<2749, 2749>>, <<2768, 2768>>,
    <<2784, 2785>>, <<2790, 2799>>, <<2809, 2809>>, <<2821, 2828>>, <<2831, 2832>>, <<2835, 2856>>,
    <<2858, 2864>>, <<2866, 2867>>, <<2869, 2873>>, <<2877, 2877>>, <<2908, 2909>>, <<2911, 2913>>,
    <<2918, 2927>>, <<2929, 2935>>, <<2947, 2947>>, <<2949, 2954>>, <<2958, 2960>>, <<2962, 2965>>,
    <<2969, 2970>>, <<2972, 2972>>, <<2974, 2975>>, <<2979, 2980>>, <<2984, 2986>>, <<2990, 3001>>,
    <<3024, 3024>>, <<3046, 3058>>, <<3077, 3084>>, <<3086, 3088>>, <<3090, 3112>>, <<3114, 3129>>,
    <<3133, 3133>>, <<3160, 3162>>, <<3165, 3165>>, <<3168, 3169>>, <<3174, 3183>>, <<3192, 3198>>,
    <<3200, 3200>>, <<3205, 3212>>, <<3214, 3216>>, <<3218, 3240>>, <<3242, 3251>>, <<3253, 3257>>,
    <<3261, 3261>>, <<3293, 3294>>, <<3296, 3297>>, <<3302, 3311>>, <<3313, 3314>>, <<3332, 3340>>,
    <<3342, 3344>>, <<3346, 3386>>, <<3389, 3389>>, <<3406, 3406>>, <<3412, 3414>>, <<3416, 3425>>,
    <<3430, 3448>>, <<3450, 3455>>, <<3461, 3478>>, <<3482, 3505>>, <<3507, 3515>>, <<3517, 3517>>,
    <<3520, 3526>>, <<3558, 3567>>, <<3585, 3632>>, <<3634, 3635>>, <<3648, 3654>>, <<3664, 3673>>,
    <<3713, 3714>>, <<3716, 3716>>, <<3718, 3722>>, <<3724, 3747>>, <<3749, 3749>>, <<3751, 3760>>,
    <<3762, 3763>>, <<3773, 3773>>, <<3776, 3780>>, <<3782, 3782>>, <<3792, 3801>>, <<3804, 3807>>,
    <<3840, 3840>>, <<3872, 3891>>, <<3904, 3911>>, <<3913, 3948>>, <<3976, 3980>>, <<4096, 4138>>,
    <<4159, 4169>>, <<4176, 4181>>, <<4186, 4189>>, <<4193, 4193>>, <<4197, 4198>>, <<4206, 4208>>,
    <<4213, 4225>>, <<4238, 4238>>, <<4240, 4249>>, <<4256, 4293>>, <<4295, 4295>>, <<4301, 4301>>,
    <<4304, 4346>>, <<4348, 4680>>, <<4682, 4685>>, <<4688, 4694>>, <<4696, 4696>>, <<4698, 4701>>,
    <<4704, 4744>>, <<4746, 4749>>, <<4752, 4784>>, <<4786, 4789>>, <<4792, 4798>>, <<4800, 4800>>,
    <<4802, 4805>>, <<4808, 4822>>, <<4824, 4880>>, <<4882, 4885>>, <<4888, 4954>>, <<4969, 4988>>,
    <<4992, 5007>>, <<5024, 5109>>, <<5112, 5117>>, <<5121, 5740>>, <<5743, 5759>>, <<5761, 5786>>,
    <<5792, 5866>>, <<5870, 5880>>, <<5888, 5905>>, <<5919, 5937>>, <<5952, 5969>>, <<5984, 5996>>,
    <<5998, 6000>>, <<6016, 6067>>, <<6103, 6103>>, <<6108, 6108>>, <<6112, 6121>>, <<6128, 6137>>,
    <<6160, 6169>>, <<6176, 6264>>, <<6272, 6276>>, <<6279, 6312>>, <<6314, 6314>>, <<6320, 6389>>,
    <<6400, 6430>>, <<6470, 6509>>, <<6512, 6516>>, <<6528, 6571>>, <<6576, 6601>>, <<6608, 6618>>,
    <<6656, 6678>>, <<6688, 6740>>, <<6784, 6793>>, <<6800, 6809>>, <<6823, 6823>>, <<6917, 6963>>,
    <<6981, 6988>>, <<6992, 7001>>, <<7043, 7072>>, <<7086, 7141>>, <<7168, 7203>>, <<7232, 7241>>,
    <<7245, 7293>>, <<7296, 7304>>, <<7312, 7354>>, <<7357, 7359>>, <<7401, 7404>>, <<7406, 7411>>,
    <<7413, 7414>>, <<7418, 7418>>, <<7424, 7615>>, <<7680, 7957>>, <<7960, 7965>>, <<7968, 8005>>,
    <<8008, 8013>>, <<8016, 8023>>, <<8025, 8025>>, <<8027, 8027>>, <<8029, 8029>>, <<8031, 8061>>,
    <<8064, 8116>>, <<8118, 8124>>, <<8126, 8126>>, <<8130, 8132>>, <<8134, 8140>>, <<8144, 8147>>,
    <<8150, 8155>>, <<8160, 8172>>, <<8178, 8180>>, <<8182, 8188>>, <<8304, 8305>>, <<8308, 8313>>,
    <<8319, 8329>>, <<8336, 8348>>, <<8450, 8450>>, <<8455, 8455>>, <<8458, 8467>>, <<8469, 8469>>,
    <<8473, 8477>>, <<8484, 8484>>, <<8486, 8486>>, <<8488, 8488>>, <<8490, 8493>>, <<8495, 8505>>,
    <<8508, 8511>>, <<8517, 8521>>, <<8526, 8526>>, <<8528, 8585>>, <<9312, 9371>>, <<9450, 9471>>,
    <<10102, 10131>>, <<11264, 11492>>, <<11499, 11502>>, <<11506, 11507>>, <<11517, 11517>>, <<11520, 11557>>,
    <<11559, 11559>>, <<11565, 11565>>, <<11568, 11623>>, <<11631, 11631>>, <<11648, 11670>>, <<11680, 11686>>,
    <<11688, 11694>>, <<11696, 11702>>, <<11704, 11710>>, <<11712, 11718>>, <<11720, 11726>>, <<11728, 11734>>,
    <<11736, 11742>>, <<11823, 11823>>, <<12293, 12295>>, <<12321, 12329>>, <<12337, 12341>>, <<12344, 12348>>,
    <<12353, 12438>>, <<12445, 12447>>, <<12449, 12538>>, <<12540, 12543>>, <<12549, 12591>>, <<12593, 12686>>,
    <<12690, 12693>>, <<12704, 12735>>, <<12784, 12799>>, <<12832, 12841>>, <<12872, 12879>>, <<12881, 12895>>,
    <<12928, 12937>>, <<12977, 12991>>, <<13312, 19903>>, <<19968, 42124>>, <<42192, 42237>>, <<42240, 42508>>,
    <<42512, 42539>>, <<42560, 42606>>, <<42623, 42653>>, <<42656, 42735>>, <<42775, 42783>>, <<42786, 42888>>,
    <<42891, 42954>>, <<42960, 42961>>, <<42963, 42963>>, <<42965, 42969>>, <<42994, 43009>>, <<43011, 43013>>,
    <<43015, 43018>>, <<43020, 43042>>, <<43056, 43061>>, <<43072, 43123>>, <<43138, 43187>>, <<43216, 43225>>,
    <<43250, 43255>>, <<43259, 43259>>, <<43261, 43262>>, <<43264, 43301>>, <<43312, 43334>>, <<43360, 43388>>,
    <<43396, 43442>>, <<43471, 43481>>, <<43488, 43492>>, <<43494, 43518>>, <<43520, 43560>>, <<43584, 43586>>,
    <<43588, 43595>>, <<43600, 43609>>, <<43616, 43638>>, <<43642, 43642>>, <<43646, 43695>>, <<43697, 43697>>,
    <<43701, 43702>>, <<43705, 43709>>, <<43712, 43712>>, <<43714, 43714>>, <<43739, 43741>>, <<43744, 43754>>,
    <<43762, 43764>>, <<43777, 43782>>, <<43785, 43790>>, <<43793, 43798>>, <<43808, 43814>>, <<43816, 43822>>,
    <<43824, 43866>>, <<43868, 43881>>, <<43888, 44002>>, <<44016, 44025>>, <<44032, 55203>>, <<55216, 55238>>,
    <<55243, 55291>>, <<63744, 64109>>, <<64112, 64217>>, <<64256, 64262>>, <<64275, 64279>>, <<64285, 64285>>,
    <<64287, 64296>>, <<64298, 64310>>, <<64312, 64316>>, <<64318, 64318>>, <<64320, 64321>>, <<64323, 64324>>,
    <<64326, 64433>>, <<64467, 64829>>, <<64848, 64911>>, <<64914, 64967>>, <<65008, 65019>>, <<65136, 65140>>,
    <<65142, 65276>>, <<65296, 65305>>, <<65313, 65338>>, <<65345, 65370>>, <<65382, 65470>>, <<65474, 65479>>,
    <<65482, 65487>>, <<65490, 65495>>, <<65498, 65500>>, <<65536, 65547>>, <<65549, 65574>>, <<65576, 65594>>,
    <<65596, 65597>>, <<65599, 65613>>, <<65616, 65629>>, <<65664, 65786>>, <<65799, 65843>>, <<65856, 65912>>,
    <<65930, 65931>>, <<66176, 66204>>, <<66208, 66256>>, <<66273, 66299>>, <<66304, 66339>>, <<66349, 66378>>,
    <<66384, 66421>>, <<66432, 66461>>, <<66464, 66499>>, <<66504, 66511>>, <<66513, 66517>>, <<66560, 66717>>,
    <<66720, 66729>>, <<66736, 66771>>, <<66776, 66811>>, <<66816, 66855>>, <<66864, 66915>>, <<66928, 66938>>,
    <<66940, 66954>>, <<66956, 66962>>, <<66964, 66965>>, <<66967, 66977>>, <<66979, 66993>>, <<66995, 67001>>,
    <<67003, 67004>>, <<67072, 67382>>, <<67392, 67413>>, <<67424, 67431>>, <<67456, 67461>>, <<67463, 67504>>,
    <<67506, 67514>>, <<67584, 67589>>, <<67592, 67592>>, <<67594, 67637>>, <<67639, 67640>>, <<67644, 67644>>,
    <<67647, 67669>>, <<67672, 67702>>, <<67705, 67742>>, <<67751, 67759>>, <<67808, 67826>>, <<67828, 67829>>,
    <<67835, 67867>>, <<67872, 67897>>, <<67968, 68023>>, <<68028, 68047>>, <<68050, 68096>>, <<68112, 68115>>,
    <<68117, 68119>>, <<68121, 68149>>, <<68160, 68168>>, <<68192, 68222>>, <<68224, 68255>>, <<68288, 68295>>,
    <<68297, 68324>>, <<68331, 68335>>, <<68352, 68405>>, <<68416, 68437>>, <<68440, 68466>>, <<68472, 68497>>,
    <<68521, 68527>>, <<68608, 68680>>, <<68736, 68786>>, <<68800, 68850>>, <<68858, 68899>>, <<68912, 68921>>,
    <<69216, 69246>>, <<69248, 69289>>, <<69296, 69297>>, <<69376, 69415>>, <<69424, 69445>>, <<69457, 69460>>,
    <<69488, 69505>>, <<69552, 69579>>, <<69600, 69622>>, <<69635, 69687>>, <<69714, 69743>>, <<69745, 69746>>,
    <<69749, 69749>>, <<69763, 69807>>, <<69840, 69864>>, <<69872, 69881>>, <<69891, 69926>>, <<69942, 69951>>,
    <<69956, 69956>>, <<69959, 69959>>, <<69968, 70002>>, <<70006, 70006>>, <<70019, 70066>>, <<70081, 70084>>,
    <<70096, 70106>>, <<70108, 70108>>, <<70113, 70132>>, <<70144, 70161>>, <<70163, 70187>>, <<70272, 70278>>,
    <<70280, 70280>>, <<70282, 70285>>, <<70287, 70301>>, <<70303, 70312>>, <<70320, 70366>>, <<70384, 70393>>,
    <<70405, 70412>>, <<70415, 70416>>, <<70419, 70440>>, <<70442, 70448>>, <<70450, 70451>>, <<70453, 70457>>,
    <<70461, 70461>>, <<70480, 70480>>, <<70493, 70497>>, <<70656, 70708>>, <<70727, 70730>>, <<70736, 70745>>,
    <<70751, 70753>>, <<70784, 70831>>, <<70852, 70853>>, <<70855, 70855>>, <<70864, 70873>>, <<71040, 71086>>,
    <<71128, 71131>>, <<71168, 71215>>, <<71236, 71236>>, <<71248, 71257>>, <<71296, 71338>>, <<71352, 71352>>,
    <<71360, 71369>>, <<71424, 71450>>, <<71472, 71483>>, <<71488, 71494>>, <<71680, 71723>>, <<71840, 71922>>,
    <<71935, 71942>>, <<71945, 71945>>, <<71948, 71955>>, <<71957, 71958>>, <<71960, 71983>>, <<71999, 71999>>,
    <<72001, 72001>>, <<72016, 72025>>, <<72096, 72103>>, <<72106, 72144>>, <<72161, 72161>>, <<72163, 72163>>,
    <<72192, 72192>>, <<72203, 72242>>, <<72250, 72250>>, <<72272, 72272>>, <<72284, 72329>>, <<72349, 72349>>,
    <<72368, 72440>>, <<72704, 72712>>, <<72714, 72750>>, <<72768, 72768>>, <<72784, 72812>>, <<72818, 72847>>,
    <<72960, 72966>>, <<72968, 72969>>, <<72971, 73008>>, <<73030, 73030>>, <<73040, 73049>>, <<73056, 73061>>,
    <<73063, 73064>>, <<73066, 73097>>, <<73112, 73112>>, <<73120, 73129>>, <<73440, 73458>>, <<73648, 73648>>,
    <<73664, 73684>>, <<73728, 74649>>, <<74752, 74862>>, <<74880, 75075>>, <<77712, 77808>>, <<77824, 78894>>,
    <<82944, 83526>>, <<92160, 92728>>, <<92736, 92766>>, <<92768, 92777>>, <<92784, 92862>>, <<92864, 92873>>,
    <<92880, 92909>>, <<92928, 92975>>, <<92992, 92995>>, <<93008, 93017>>, <<93019, 93025>>, <<93027, 93047>>,
    <<93053, 93071>>, <<93760, 93846>>, <<93952, 94026>>, <<94032, 94032>>, <<94099, 94111>>, <<94176, 94177>>,
    <<94179, 94179>>, <<94208, 100343>>, <<100352, 101589>>, <<101632, 101640>>, <<110576, 110579>>, <<110581, 110587>>,
    <<110589, 110590>>, <<110592, 110882>>, <<110928, 110930>>, <<110948, 110951>>, <<110960, 111355>>, <<113664, 113770>>,
    <<113776, 113788>>, <<113792, 113800>>, <<113808, 113817>>, <<119520, 119539>>, <<119648, 119672>>, <<119808, 119892>>,
    <<119894, 119964>>, <<119966, 119967>>, <<119970, 119970>>, <<119973, 119974>>, <<119977, 119980>>, <<119982, 119993>>,
    <<119995, 119995>>, <<119997, 120003>>, <<120005, 120069>>, <<120071, 120074>>, <<120077, 120084>>, <<120086, 120092>>,
    <<120094, 120121>>, <<120123, 120126>>, <<120128, 120132>>, <<120134, 120134>>, <<120138, 120144>>, <<120146, 120485>>,
    <<120488, 120512>>, <<120514, 120538>>, <<120540, 120570>>, <<120572, 120596>>, <<120598, 120628>>, <<120630, 120654>>,
    <<120656, 120686>>, <<120688, 120712>>, <<120714, 120744>>, <<120746, 120770>>, <<120772, 120779>>, <<120782, 120831>>,
    <<122624, 122654>>, <<123136, 123180>>, <<123191, 123197>>, <<123200, 123209>>, <<123214, 123214>>, <<123536, 123565>>,
    <<123584, 123627>>, <<123632, 123641>>, <<124896, 124902>>, <<124904, 124907>>, <<124909, 124910>>, <<124912, 124926>>,
    <<124928, 125124>>, <<125127, 125135>>, <<125184, 125251>>, <<125259, 125259>>, <<125264, 125273>>, <<126065, 126123>>,
    <<126125, 126127>>, <<126129, 126132>>, <<126209, 126253>>, <<126255, 126269>>, <<126464, 126467>>, <<126469, 126495>>,
    <<126497, 126498>>, <<126500, 126500>>, <<126503, 126503>>, <<126505, 126514>>, <<126516, 126519>>, <<126521, 126521>>,
    <<126523, 126523>>, <<126530, 126530>>, <<126535, 126535>>, <<126537, 126537>>, <<126539, 126539>>, <<126541, 126543>>,
    <<126545, 126546>>, <<126548, 126548>>, <<126551, 126551>>, <<126553, 126553>>, <<126555, 126555>>, <<126557, 126557>>,
    <<126559, 126559>>, <<126561, 126562>>, <<126564, 126564>>, <<126567, 126570>>, <<126572, 126578>>, <<126580, 126583>>,
    <<126585, 126588>>, <<126590, 126590>>, <<126592, 126601>>, <<126603, 126619>>, <<126625, 126627>>, <<126629, 126633>>,
    <<126635, 126651>>, <<127232, 127244>>, <<130032, 130041>>, <<131072, 173791>>, <<173824, 177976>>, <<177984, 178205>>,
    <<178208, 183969>>, <<183984, 191456>>, <<194560, 195101>>, <<196608, 201546>>
  }

\* str.isalnum() on one character
IsAlnum(c) ==
  IF c < 128
  THEN c \in (48..57) \cup (65..90) \cup (97..122)
  ELSE \E r \in AlnumRanges : r[1] <= c /\ c <= r[2]

\* the characters str.strip() removes (those with str.isspace())
Whitespace ==
  {
    9, 10, 11, 12, 13, 28, 29, 30, 31, 32, 133, 160,
    5760, 8192, 8193, 8194, 8195, 8196, 8197, 8198, 8199, 8200, 8201, 8202,
    8232, 8233, 8239, 8287, 12288
  }

\* the filter of the sanitizing comprehension: c.isalnum() or c in (' ', '-', '_')
Keep(c) == IsAlnum(c) \/ c \in {32, 45, 95}

\* "".join(c for c in s if ...)
RECURSIVE Filter(_)
Filter(s) ==
  IF s = <<>> THEN <<>>
  ELSE IF Keep(Head(s)) THEN <<Head(s)>> \o Filter(Tail(s))
  ELSE Filter(Tail(s))

RECURSIVE LStrip(_)
LStrip(s) ==
  IF s = <<>> THEN <<>>
  ELSE IF Head(s) \in Whitespace THEN LStrip(Tail(s))
  ELSE s

RECURSIVE RStrip(_)
RStrip(s) ==
  IF s = <<>> THEN <<>>
  ELSE IF s[Len(s)] \in Whitespace THEN RStrip(SubSeq(s, 1, Len(s) - 1))
  ELSE s

\* a strip that removes at most one character at each end
MutStripOne(s) ==
  LET l == IF s # <<>> /\ Head(s) \in Whitespace THEN Tail(s) ELSE s
  IN  IF l # <<>> /\ l[Len(l)] \in Whitespace THEN SubSeq(l, 1, Len(l) - 1) ELSE l

\* str.strip()
Strip(s) == RStrip(LStrip(s))

\* the decimal digit d as a character
DigitChar(d) == 48 + d

RECURSIVE NatStr(_)
NatStr(n) == IF n < 10 THEN <<DigitChar(n)>> ELSE NatStr(n \div 10) \o <<DigitChar(n % 10)>>

\* str(n) inside an f-string, n an int (path_id is a signed 64-bit integer)
IntStr(n) == IF n < 0 THEN <<45>> \o NatStr(0 - n) ELSE NatStr(n)

\* the lower-case type prefix of the synthesized names:
\* "mesh", "texture", "sprite"
TypePrefix(type) ==
  CASE type = "Mesh" -> <<109, 101, 115, 104>>
    [] type = "Texture2D" -> <<116, 101, 120, 116, 117, 114, 101>>
    [] type = "Sprite" -> <<115, 112, 114, 105, 116, 101>>

\* f"mesh_{obj.path_id}", f"texture_{obj.path_id}", f"sprite_{obj.path_id}"
Fallback(type, path_id) == TypePrefix(type) \o <<95>> \o IntStr(path_id)

\* sanitizing without the empty-result fallback
MutSanitizeNoFallback(name, fallback) == Strip(Filter(name))

\* the two sanitizing statements: filter, strip, and the fallback when empty
Sanitize(name, fallback) ==
  LET clean == Strip(Filter(name))
  IN  IF clean = <<>> THEN fallback ELSE clean

\* data.name if hasattr(data, 'name') and data.name else f"..._{obj.path_id}"
\* (has_name is FALSE when the decoded object carries no name attribute)
ResolveName(has_name, name, fallback) ==
  IF has_name /\ name # <<>> THEN name ELSE fallback

(***************************************************************************)
(* categorize_mesh.                                                        *)
(***************************************************************************)
\* the one-character lower-case mappings, as runs <<first, last, delta,
\* step>>: every step-th code point from first to last maps to itself
\* plus delta (U+0130 and U+03A3 are handled apart)
LowerRuns ==
  {
    <<65, 90, 32, 1>>, <<192, 214, 32, 1>>, <<216, 222, 32, 1>>, <<256, 302, 1, 2>>,
    <<306, 310, 1, 2>>, <<313, 327, 1, 2>>, <<330, 374, 1, 2>>, <<376, 376, -121, 1>>,
    <<377, 381, 1, 2>>, <<385, 385, 210, 1>>, <<386, 388, 1, 2>>, <<390, 390, 206, 1>>,
    <<391, 391, 1, 1>>, <<393, 394, 205, 1>>, <<395, 395, 1, 1>>, <<398, 398, 79, 1>>,
    <<399, 399, 202, 1>>, <<400, 400, 203, 1>>, <<401, 401, 1, 1>>, <<403, 403, 205, 1>>,
    <<404, 404, 207, 1>>, <<406, 406, 211, 1>>, <<407, 407, 209, 1>>, <<408, 408, 1, 1>>,
    <<412, 412, 211, 1>>, <<413, 413, 213, 1>>, <<415, 415, 214, 1>>, <<416, 420, 1, 2>>,
    <<422, 422, 218, 1>>, <<423, 423, 1, 1>>, <<425, 425, 218, 1>>, <<428, 428, 1, 1>>,
    <<430, 430, 218, 1>>, <<431, 431, 1, 1>>, <<433, 434, 217, 1>>, <<435, 437, 1, 2>>,
    <<439, 439, 219, 1>>, <<440, 440, 1, 1>>, <<444, 444, 1, 1>>, <<452, 452, 2, 1>>,
    <<453, 453, 1, 1>>, <<455, 455, 2, 1>>, <<456, 456, 1, 1>>, <<458, 458, 2, 1>>,
    <<459, 475, 1, 2>>, <<478, 494, 1, 2>>, <<497, 497, 2, 1>>, <<498, 500, 1, 2>>,
    <<502, 502, -97, 1>>, <<503, 503, -56, 1>>, <<504, 542, 1, 2>>, <<544, 544, -130, 1>>,
    <<546, 562, 1, 2>>, <<570, 570, 10795, 1>>, <<571, 571, 1, 1>>, <<573, 573, -163, 1>>,
    <<574, 574, 10792, 1>>, <<577, 577, 1, 1>>, <<579, 579, -195, 1>>, <<580, 580, 69, 1>>,
    <<581, 581, 71, 1>>, <<582, 590, 1, 2>>, <<880, 882, 1, 2>>, <<886, 886, 1, 1>>,
    <<895, 895, 116, 1>>, <<902, 902, 38, 1>>, <<904, 906, 37, 1>>, <<908, 908, 64, 1>>,
    <<910, 911, 63, 1>>, <<913, 929, 32, 1>>, <<932, 939, 32, 1>>, <<975, 975, 8, 1>>,
    <<984, 1006, 1, 2>>, <<1012, 1012, -60, 1>>, <<1015, 1015, 1, 1>>, <<1017, 1017, -7, 1>>,
    <<1018, 1018, 1, 1>>, <<1021, 1023, -130, 1>>, <<1024, 1039, 80, 1>>, <<1040, 1071, 32, 1>>,
    <<1120, 1152, 1, 2>>, <<1162, 1214, 1, 2>>, <<1216, 1216, 15, 1>>, <<1217, 1229, 1, 2>>,
    <<1232, 1326, 1, 2>>, <<1329, 1366, 48, 1>>, <<4256, 4293, 7264, 1>>, <<4295, 4295, 7264, 1>>,
    <<4301, 4301, 7264, 1>>, <<5024, 5103, 38864, 1>>, <<5104, 5109, 8, 1>>, <<7312, 7354, -3008, 1>>,
    <<7357, 7359, -3008, 1>>, <<7680, 7828, 1, 2>>, <<7838, 7838, -7615, 1>>, <<7840, 7934, 1, 2>>,
    <<7944, 7951, -8, 1>>, <<7960, 7965, -8, 1>>, <<7976, 7983, -8, 1>>, <<7992, 7999, -8, 1>>,
    <<8008, 8013, -8, 1>>, <<8025, 8031, -8, 2>>, <<8040, 8047, -8, 1>>, <<8072, 8079, -8, 1>>,
    <<8088, 8095, -8, 1>>, <<8104, 8111, -8, 1>>, <<8120, 8121, -8, 1>>, <<8122, 8123, -74, 1>>,
    <<8124, 8124, -9, 1>>, <<8136, 8139, -86, 1>>, <<8140, 8140, -9, 1>>, <<8152, 8153, -8, 1>>,
    <<8154, 8155, -100, 1>>, <<8168, 8169, -8, 1>>, <<8170, 8171, -112, 1>>, <<8172, 8172, -7, 1>>,
    <<8184, 8185, -128, 1>>, <<8186, 8187, -126, 1>>, <<8188, 8188, -9, 1>>, <<8486, 8486, -7517, 1>>,
    <<8490, 8490, -8383, 1>>, <<8491, 8491, -8262, 1>>, <<8498, 8498, 28, 1>>, <<8544, 8559, 16, 1>>,
    <<8579, 8579, 1, 1>>, <<9398, 9423, 26, 1>>, <<11264, 11311, 48, 1>>, <<11360, 11360, 1, 1>>,
    <<11362, 11362, -10743, 1>>, <<11363, 11363, -3814, 1>>, <<11364, 11364, -10727, 1>>, <<11367, 11371, 1, 2>>,
    <<11373, 11373, -10780, 1>>, <<11374, 11374, -10749, 1>>, <<11375, 11375, -10783, 1>>, <<11376, 11376, -10782, 1>>,
    <<11378, 11378, 1, 1>>, <<11381, 11381, 1, 1>>, <<11390, 11391, -10815, 1>>, <<11392, 11490, 1, 2>>,
    <<11499, 11501, 1, 2>>, <<11506, 11506, 1, 1>>, <<42560, 42604, 1, 2>>, <<42624, 42650, 1, 2>>,
    <<42786, 42798, 1, 2>>, <<42802, 42862, 1, 2>>, <<42873, 42875, 1, 2>>, <<42877, 42877, -35332, 1>>,
    <<42878, 42886, 1, 2>>, <<42891, 42891, 1, 1>>, <<42893, 42893, -42280, 1>>, <<42896, 42898, 1, 2>>,
    <<42902, 42920, 1, 2>>, <<42922, 42922, -42308, 1>>, <<42923, 42923, -42319, 1>>, <<42924, 42924, -42315, 1>>,
    <<42925, 42925, -42305, 1>>, <<42926, 42926, -42308, 1>>, <<42928, 42928, -42258, 1>>, <<42929, 42929, -42282, 1>>,
    <<42930, 42930, -42261, 1>>, <<42931, 42931, 928, 1>>, <<42932, 42946, 1, 2>>, <<42948, 42948, -48, 1>>,
    <<42949, 42949, -42307, 1>>, <<42950, 42950, -35384, 1>>, <<42951, 42953, 1, 2>>, <<42960, 42960, 1, 1>>,
    <<42966, 42968, 1, 2>>, <<42997, 42997, 1, 1>>, <<65313, 65338, 32, 1>>, <<66560, 66599, 40, 1>>,
    <<66736, 66771, 40, 1>>, <<66928, 66938, 39, 1>>, <<66940, 66954, 39, 1>>, <<66956, 66962, 39, 1>>,
    <<66964, 66965, 39, 1>>, <<68736, 68786, 64, 1>>, <<71840, 71871, 32, 1>>, <<93760, 93791, 32, 1>>,
    <<125184, 125217, 34, 1>>
  }

\* the characters the final-sigma rule of str.lower() skips (case-ignorable)
CaseIgnorableRanges ==
  {
    <<39, 39>>, <<46, 46>>, <<58, 58>>, <<94, 94>>, <<96, 96>>, <<168, 168>>,
    <<173, 173>>, <<175, 175>>, <<180, 180>>, <<183, 184>>, <<688, 879>>, <<884, 885>>,
    <<890, 890>>, <<900, 901>>, <<903, 903>>, <<1155, 1161>>, <<1369, 1369>>, <<1375, 1375>>,
    <<1425, 1469>>, <<1471, 1471>>, <<1473, 1474>>, <<1476, 1477>>, <<1479, 1479>>, <<1524, 1524>>,
    <<1536, 1541>>, <<1552, 1562>>, <<1564, 1564>>, <<1600, 1600>>, <<1611, 1631>>, <<1648, 1648>>,
    <<1750, 1757>>, <<1759, 1768>>, <<1770, 1773>>, <<1807, 1807>>, <<1809, 1809>>, <<1840, 1866>>,
    <<1958, 1968>>, <<2027, 2037>>, <<2042, 2042>>, <<2045, 2045>>, <<2070, 2093>>, <<2137, 2139>>,
    <<2184, 2184>>, <<2192, 2193>>, <<2200, 2207>>, <<2249, 2306>>, <<2362, 2362>>, <<2364, 2364>>,
    <<2369, 2376>>, <<2381, 2381>>, <<2385, 2391>>, <<2402, 2403>>, <<2417, 2417>>, <<2433, 2433>>,
    <<2492, 2492>>, <<2497, 2500>>, <<2509, 2509>>, <<2530, 2531>>, <<2558, 2558>>, <<2561, 2562>>,
    <<2620, 2620>>, <<2625, 2626>>, <<2631, 2632>>, <<2635, 2637>>, <<2641, 2641>>, <<2672, 2673>>,
    <<2677, 2677>>, <<2689, 2690>>, <<2748, 2748>>, <<2753, 2757>>, <<2759, 2760>>, <<2765, 2765>>,
    <<2786, 2787>>, <<2810, 2815>>, <<2817, 2817>>, <<2876, 2876>>, <<2879, 2879>>, <<2881, 2884>>,
    <<2893, 2893>>, <<2901, 2902>>, <<2914, 2915>>, <<2946, 2946>>, <<3008, 3008>>, <<3021, 3021>>,
    <<3072, 3072>>, <<3076, 3076>>, <<3132, 3132>>, <<3134, 3136>>, <<3142, 3144>>, <<3146, 3149>>,
    <<3157, 3158>>, <<3170, 3171>>, <<3201, 3201>>, <<3260, 3260>>, <<3263, 3263>>, <<3270, 3270>>,
    <<3276, 3277>>, <<3298, 3299>>, <<3328, 3329>>, <<3387, 3388>>, <<3393, 3396>>, <<3405, 3405>>,
    <<3426, 3427>>, <<3457, 3457>>, <<3530, 3530>>, <<3538, 3540>>, <<3542, 3542>>, <<3633, 3633>>,
    <<3636, 3642>>, <<3654, 3662>>, <<3761, 3761>>, <<3764, 3772>>, <<3782, 3782>>, <<3784, 3789>>,
    <<3864, 3865>>, <<3893, 3893>>, <<3895, 3895>>, <<3897, 3897>>, <<3953, 3966>>, <<3968, 3972>>,
    <<3974, 3975>>, <<3981, 3991>>, <<3993, 4028>>, <<4038, 4038>>, <<4141, 4144>>, <<4146, 4151>>,
    <<4153, 4154>>, <<4157, 4158>>, <<4184, 4185>>, <<4190, 4192>>, <<4209, 4212>>, <<4226, 4226>>,
    <<4229, 4230>>, <<4237, 4237>>, <<4253, 4253>>, <<4348, 4348>>, <<4957, 4959>>, <<5906, 5908>>,
    <<5938, 5939>>, <<5970, 5971>>, <<6002, 6003>>, <<6068, 6069>>, <<6071, 6077>>, <<6086, 6086>>,
    <<6089, 6099>>, <<6103, 6103>>, <<6109, 6109>>, <<6155, 6159>>, <<6211, 6211>>, <<6277, 6278>>,
    <<6313, 6313>>, <<6432, 6434>>, <<6439, 6440>>, <<6450, 6450>>, <<6457, 6459>>, <<6679, 6680>>,
    <<6683, 6683>>, <<6742, 6742>>, <<6744, 6750>>, <<6752, 6752>>, <<6754, 6754>>, <<6757, 6764>>,
    <<6771, 6780>>, <<6783, 6783>>, <<6823, 6823>>, <<6832, 6862>>, <<6912, 6915>>, <<6964, 6964>>,
    <<6966, 6970>>, <<6972, 6972>>, <<6978, 6978>>, <<7019, 7027>>, <<7040, 7041>>, <<7074, 7077>>,
    <<7080, 7081>>, <<7083, 7085>>, <<7142, 7142>>, <<7144, 7145>>, <<7149, 7149>>, <<7151, 7153>>,
    <<7212, 7219>>, <<7222, 7223>>, <<7288, 7293>>, <<7376, 7378>>, <<7380, 7392>>, <<7394, 7400>>,
    <<7405, 7405>>, <<7412, 7412>>, <<7416, 7417>>, <<7468, 7530>>, <<7544, 7544>>, <<7579, 7679>>,
    <<8125, 8125>>, <<8127, 8129>>, <<8141, 8143>>, <<8157, 8159>>, <<8173, 8175>>, <<8189, 8190>>,
    <<8203, 8207>>, <<8216, 8217>>, <<8228, 8228>>, <<8231, 8231>>, <<8234, 8238>>, <<8288, 8292>>,
    <<8294, 8303>>, <<8305, 8305>>, <<8319, 8319>>, <<8336, 8348>>, <<8400, 8432>>, <<11388, 11389>>,
    <<11503, 11505>>, <<11631, 11631>>, <<11647, 11647>>, <<11744, 11775>>, <<11823, 11823>>, <<12293, 12293>>,
    <<12330, 12333>>, <<12337, 12341>>, <<12347, 12347>>, <<12441, 12446>>, <<12540, 12542>>, <<40981, 40981>>,
    <<42232, 42237>>, <<42508, 42508>>, <<42607, 42610>>, <<42612, 42621>>, <<42623, 42623>>, <<42652, 42655>>,
    <<42736, 42737>>, <<42752, 42785>>, <<42864, 42864>>, <<42888, 42890>>, <<42994, 42996>>, <<43000, 43001>>,
    <<43010, 43010>>, <<43014, 43014>>, <<43019, 43019>>, <<43045, 43046>>, <<43052, 43052>>, <<43204, 43205>>,
    <<43232, 43249>>, <<43263, 43263>>, <<43302, 43309>>, <<43335, 43345>>, <<43392, 43394>>, <<43443, 43443>>,
    <<43446, 43449>>, <<43452, 43453>>, <<43471, 43471>>, <<43493, 43494>>, <<43561, 43566>>, <<43569, 43570>>,
    <<43573, 43574>>, <<43587, 43587>>, <<43596, 43596>>, <<43632, 43632>>, <<43644, 43644>>, <<43696, 43696>>,
    <<43698, 43700>>, <<43703, 43704>>, <<43710, 43711>>, <<43713, 43713>>, <<43741, 43741>>, <<43756, 43757>>,
    <<43763, 43764>>, <<43766, 43766>>, <<43867, 43871>>, <<43881, 43883>>, <<44005, 44005>>, <<44008, 44008>>,
    <<44013, 44013>>, <<64286, 64286>>, <<64434, 64450>>, <<65024, 65039>>, <<65043, 65043>>, <<65056, 65071>>,
    <<65106, 65106>>, <<65109, 65109>>, <<65279, 65279>>, <<65287, 65287>>, <<65294, 65294>>, <<65306, 65306>>,
    <<65342, 65342>>, <<65344, 65344>>, <<65392, 65392>>, <<65438, 65439>>, <<65507, 65507>>, <<65529, 65531>>,
    <<66045, 66045>>, <<66272, 66272>>, <<66422, 66426>>, <<67456, 67461>>, <<67463, 67504>>, <<67506, 67514>>,
    <<68097, 68099>>, <<68101, 68102>>, <<68108, 68111>>, <<68152, 68154>>, <<68159, 68159>>, <<68325, 68326>>,
    <<68900, 68903>>, <<69291, 69292>>, <<69446, 69456>>, <<69506, 69509>>, <<69633, 69633>>, <<69688, 69702>>,
    <<69744, 69744>>, <<69747, 69748>>, <<69759, 69761>>, <<69811, 69814>>, <<69817, 69818>>, <<69821, 69821>>,
    <<69826, 69826>>, <<69837, 69837>>, <<69888, 69890>>, <<69927, 69931>>, <<69933, 69940>>, <<70003, 70003>>,
    <<70016, 70017>>, <<70070, 70078>>, <<70089, 70092>>, <<70095, 70095>>, <<70191, 70193>>, <<70196, 70196>>,
    <<70198, 70199>>, <<70206, 70206>>, <<70367, 70367>>, <<70371, 70378>>, <<70400, 70401>>, <<70459, 70460>>,
    <<70464, 70464>>, <<70502, 70508>>, <<70512, 70516>>, <<70712, 70719>>, <<70722, 70724>>, <<70726, 70726>>,
    <<70750, 70750>>, <<70835, 70840>>, <<70842, 70842>>, <<70847, 70848>>, <<70850, 70851>>, <<71090, 71093>>,
    <<71100, 71101>>, <<71103, 71104>>, <<71132, 71133>>, <<71219, 71226>>, <<71229, 71229>>, <<71231, 71232>>,
    <<71339, 71339>>, <<71341, 71341>>, <<71344, 71349>>, <<71351, 71351>>, <<71453, 71455>>, <<71458, 71461>>,
    <<71463, 71467>>, <<71727, 71735>>, <<71737, 71738>>, <<71995, 71996>>, <<71998, 71998>>, <<72003, 72003>>,
    <<72148, 72151>>, <<72154, 72155>>, <<72160, 72160>>, <<72193, 72202>>, <<72243, 72248>>, <<72251, 72254>>,
    <<72263, 72263>>, <<72273, 72278>>, <<72281, 72283>>, <<72330, 72342>>, <<72344, 72345>>, <<72752, 72758>>,
    <<72760, 72765>>, <<72767, 72767>>, <<72850, 72871>>, <<72874, 72880>>, <<72882, 72883>>, <<72885, 72886>>,
    <<73009, 73014>>, <<73018, 73018>>, <<73020, 73021>>, <<73023, 73029>>, <<73031, 73031>>, <<73104, 73105>>,
    <<73109, 73109>>, <<73111, 73111>>, <<73459, 73460>>, <<78896, 78904>>, <<92912, 92916>>, <<92976, 92982>>,
    <<92992, 92995>>, <<94031, 94031>>, <<94095, 94111>>, <<94176, 94177>>, <<94179, 94180>>, <<110576, 110579>>,
    <<110581, 110587>>, <<110589, 110590>>, <<113821, 113822>>, <<113824, 113827>>, <<118528, 118573>>, <<118576, 118598>>,
    <<119143, 119145>>, <<119155, 119170>>, <<119173, 119179>>, <<119210, 119213>>, <<119362, 119364>>, <<121344, 121398>>,
    <<121403, 121452>>, <<121461, 121461>>, <<121476, 121476>>, <<121499, 121503>>, <<121505, 121519>>, <<122880, 122886>>,
    <<122888, 122904>>, <<122907, 122913>>, <<122915, 122916>>, <<122918, 122922>>, <<123184, 123197>>, <<123566, 123566>>,
    <<123628, 123631>>, <<125136, 125142>>, <<125252, 125259>>, <<127995, 127999>>, <<917505, 917505>>, <<917536, 917631>>,
    <<917760, 917999>>
  }

\* the cased characters among those the final-sigma rule does not skip
CasedRanges ==
  {
    <<65, 90>>, <<97, 122>>, <<170, 170>>, <<181, 181>>, <<186, 186>>, <<192, 214>>,
    <<216, 246>>, <<248, 442>>, <<444, 447>>, <<452, 659>>, <<661, 687>>, <<880, 883>>,
    <<886, 887>>, <<891, 893>>, <<895, 895>>, <<902, 902>>, <<904, 906>>, <<908, 908>>,
    <<910, 929>>, <<931, 1013>>, <<1015, 1153>>, <<1162, 1327>>, <<1329, 1366>>, <<1376, 1416>>,
    <<4256, 4293>>, <<4295, 4295>>, <<4301, 4301>>, <<4304, 4346>>, <<4349, 4351>>, <<5024, 5109>>,
    <<5112, 5117>>, <<7296, 7304>>, <<7312, 7354>>, <<7357, 7359>>, <<7424, 7467>>, <<7531, 7543>>,
    <<7545, 7578>>, <<7680, 7957>>, <<7960, 7965>>, <<7968, 8005>>, <<8008, 8013>>, <<8016, 8023>>,
    <<8025, 8025>>, <<8027, 8027>>, <<8029, 8029>>, <<8031, 8061>>, <<8064, 8116>>, <<8118, 8124>>,
    <<8126, 8126>>, <<8130, 8132>>, <<8134, 8140>>, <<8144, 8147>>, <<8150, 8155>>, <<8160, 8172>>,
    <<8178, 8180>>, <<8182, 8188>>, <<8450, 8450>>, <<8455, 8455>>, <<8458, 8467>>, <<8469, 8469>>,
    <<8473, 8477>>, <<8484, 8484>>, <<8486, 8486>>, <<8488, 8488>>, <<8490, 8493>>, <<8495, 8500>>,
    <<8505, 8505>>, <<8508, 8511>>, <<8517, 8521>>, <<8526, 8526>>, <<8544, 8575>>, <<8579, 8580>>,
    <<9398, 9449>>, <<11264, 11387>>, <<11390, 11492>>, <<11499, 11502>>, <<11506, 11507>>, <<11520, 11557>>,
    <<11559, 11559>>, <<11565, 11565>>, <<42560, 42605>>, <<42624, 42651>>, <<42786, 42863>>, <<42865, 42887>>,
    <<42891, 42894>>, <<42896, 42954>>, <<42960, 42961>>, <<42963, 42963>>, <<42965, 42969>>, <<42997, 42998>>,
    <<43002, 43002>>, <<43824, 43866>>, <<43872, 43880>>, <<43888, 43967>>, <<64256, 64262>>, <<64275, 64279>>,
    <<65313, 65338>>, <<65345, 65370>>, <<66560, 66639>>, <<66736, 66771>>, <<66776, 66811>>, <<66928, 66938>>,
    <<66940, 66954>>, <<66956, 66962>>, <<66964, 66965>>, <<66967, 66977>>, <<66979, 66993>>, <<66995, 67001>>,
    <<67003, 67004>>, <<68736, 68786>>, <<68800, 68850>>, <<71840, 71903>>, <<93760, 93823>>, <<119808, 119892>>,
    <<119894, 119964>>, <<119966, 119967>>, <<119970, 119970>>, <<119973, 119974>>, <<119977, 119980>>, <<119982, 119993>>,
    <<119995, 119995>>, <<119997, 120003>>, <<120005, 120069>>, <<120071, 120074>>, <<120077, 120084>>, <<120086, 120092>>,
    <<120094, 120121>>, <<120123, 120126>>, <<120128, 120132>>, <<120134, 120134>>, <<120138, 120144>>, <<120146, 120485>>,
    <<120488, 120512>>, <<120514, 120538>>, <<120540, 120570>>, <<120572, 120596>>, <<120598, 120628>>, <<120630, 120654>>,
    <<120656, 120686>>, <<120688, 120712>>, <<120714, 120744>>, <<120746, 120770>>, <<120772, 120779>>, <<122624, 122633>>,
    <<122635, 122654>>, <<125184, 125251>>, <<127280, 127305>>, <<127312, 127337>>, <<127344, 127369>>
  }

InRun(c, r) == r[1] <= c /\ c <= r[2] /\ (c - r[1]) % r[4] = 0

CaseIgnorable(c) == \E r \in CaseIgnorableRanges : r[1] <= c /\ c <= r[2]

Cased(c) == \E r \in CasedRanges : r[1] <= c /\ c <= r[2]

\* str.lower() on one character other than capital sigma; U+0130 becomes
\* two characters
LowerChar(c) ==
  IF c = 304 THEN <<105, 775>>
  ELSE IF \E r \in LowerRuns : InRun(c, r)
  THEN <<c + (CHOOSE r \in LowerRuns : InRun(c, r))[3]>>
  ELSE <<c>>

\* str.lower() on the capital sigma at position i of s: final sigma (U+03C2)
\* after a cased character and not before one, case-ignorable characters
\* skipped on both sides; U+03C3 otherwise
LowerSigma(s, i) ==
  LET before == {j \in 1..(i - 1) : ~CaseIgnorable(s[j])}
      after == {j \in (i + 1)..Len(s) : ~CaseIgnorable(s[j])}
      last == CHOOSE j \in before : \A h \in before : h <= j
      first == CHOOSE j \in after : \A h \in after : j <= h
  IN  IF /\ before # {}
         /\ Cased(s[last])
         /\ (after = {} \/ ~Cased(s[first]))
      THEN 962 ELSE 963

\* name.lower()
RECURSIVE LowerFrom(_, _)
LowerFrom(s, i) ==
  IF i > Len(s) THEN <<>>
  ELSE (IF s[i] = 931 THEN <<LowerSigma(s, i)>> ELSE LowerChar(s[i]))
       \o LowerFrom(s, i + 1)

Lower(s) == LowerFrom(s, 1)

\* k in s, for strings
Contains(k, s) ==
  \E i \in 0..(Len(s) - Len(k)) : SubSeq(s, i + 1, i + Len(k)) = k

\* "hilt", "handle", "grip", "guard", "pommel", "emitter"
HiltKeywords ==
  { <<104, 105, 108, 116>>, <<104, 97, 110, 100, 108, 101>>,
    <<103, 114, 105, 112>>, <<103, 117, 97, 114, 100>>,
    <<112, 111, 109, 109, 101, 108>>, <<101, 109, 105, 116, 116, 101, 114>> }

\* "blade", "beam", "glow", "laser"
BladeKeywords ==
  { <<98, 108, 97, 100, 101>>, <<98, 101, 97, 109>>, <<103, 108, 111, 119>>,
    <<108, 97, 115, 101, 114>> }

\* categorize_mesh with the two keyword tests in the other order
MutCategorizeBladeFirst(name) ==
  LET name_lower == Lower(name)
  IN  IF \E k \in BladeKeywords : Contains(k, name_lower) THEN "blade"
      ELSE "hilt"

categorize_mesh(name) ==
  LET name_lower == Lower(name)
  IN  IF \E k \in HiltKeywords : Contains(k, name_lower) THEN "hilt"
      ELSE IF \E k \in BladeKeywords : Contains(k, name_lower) THEN "blade"
      ELSE "hilt"

(***************************************************************************)
(* Byte encodings.                                                         *)
(***************************************************************************)
\* a lone surrogate: str.encode('utf-8') raises UnicodeEncodeError on it
IsSurrogate(cp) == 55296 <= cp /\ cp <= 57343

\* whether obj_data.encode('utf-8') succeeds
Utf8Encodable(s) == \A i \in 1..Len(s) : ~IsSurrogate(s[i])

\* str.encode('utf-8') of one code point that is no surrogate
Utf8Char(cp) ==
  IF cp < 128 THEN <<cp>>
  ELSE IF cp < 2048 THEN <<192 + (cp \div 64), 128 + (cp % 64)>>
  ELSE IF cp < 65536
  THEN <<224 + (cp \div 4096), 128 + ((cp \div 64) % 64), 128 + (cp % 64)>>
  ELSE <<240 + (cp \div 262144), 128 + ((cp \div 4096) % 64),
         128 + ((cp \div 64) % 64), 128 + (cp % 64)>>

RECURSIVE Utf8Encode(_)
Utf8Encode(s) == IF s = <<>> THEN <<>> ELSE Utf8Char(Head(s)) \o Utf8Encode(Tail(s))

\* whether the conversion of the exported value to bytes succeeds
BytesOk(obj_data) == obj_data.kind # "str" \/ Utf8Encodable(obj_data.val)

\* the result of data.export() is a str or a bytes value
\* if isinstance(obj_data, str): obj_data.encode('utf-8') else obj_data
ToBytes(obj_data) ==
  IF obj_data.kind = "str" THEN Utf8Encode(obj_data.val) ELSE obj_data.val

B64Pad == 64

\* an encoder that drops the bytes of a short tail instead of padding them
RECURSIVE MutB64NoTail(_)
MutB64NoTail(b) ==
  IF Len(b) < 3 THEN <<>>
  ELSE
    <<b[1] \div 4, (b[1] % 4) * 16 + (b[2] \div 16),
      (b[2] % 16) * 4 + (b[3] \div 64), b[3] % 64>>
    \o MutB64NoTail(SubSeq(b, 4, Len(b)))

\* base64.b64encode: three bytes to four sextets, '=' padding on a short tail
RECURSIVE B64Encode(_)
B64Encode(b) ==
  IF b = <<>> THEN <<>>
  ELSE IF Len(b) = 1 THEN
    <<b[1] \div 4, (b[1] % 4) * 16, B64Pad, B64Pad>>
  ELSE IF Len(b) = 2 THEN
    <<b[1] \div 4, (b[1] % 4) * 16 + (b[2] \div 16), (b[2] % 16) * 4, B64Pad>>
  ELSE
    <<b[1] \div 4, (b[1] % 4) * 16 + (b[2] \div 16),
      (b[2] % 16) * 4 + (b[3] \div 64), b[3] % 64>>
    \o B64Encode(SubSeq(b, 4, Len(b)))

\* base64.b64decode of well-formed text (what a reader of the preset does)
RECURSIVE B64Decode(_)
B64Decode(t) ==
  IF Len(t) < 4 THEN <<>>
  ELSE
    LET q == SubSeq(t, 1, 4)
        b1 == q[1] * 4 + (q[2] \div 16)
        b2 == (q[2] % 16) * 16 + (q[3] \div 4)
        b3 == (q[3] % 4) * 64 + q[4]
    IN  IF q[3] = B64Pad THEN <<b1>>
        ELSE IF q[4] = B64Pad THEN <<b1, b2>>
        ELSE <<b1, b2, b3>> \o B64Decode(SubSeq(t, 5, Len(t)))

\* base64.b64encode(bytes).decode('utf-8'): base64 text is ASCII, one
\* character per sextet
Base64Text(bytes) == B64Encode(bytes)

(***************************************************************************)
(* The run of the script.                                                  *)
(***************************************************************************)
VARIABLES
  pc,            \* the section of the script about to run
  unitypy,       \* environment: whether the import of UnityPy succeeds
  saber_files,   \* environment: list(INPUT_DIR.glob("*.saber"))
  bundle,        \* environment: what UnityPy.load makes of the file found
  folders,       \* the output folders that exist
  saber_name,    \* stem of the chosen input file
  env_objects,   \* env.objects once the bundle is loaded
  k,             \* position of the running for loop (1-based)
  mesh_data,     \* list of mesh records
  texture_data,  \* list of texture and sprite records
  geo_dir,       \* files of output/CustomGeometry: set of [filename, bytes]
  tex_dir,       \* files of output/CustomTextures: set of [filename, bytes]
  geo_log,       \* history: filenames opened for writing in CustomGeometry
  tex_log,       \* history: filenames saved to in CustomTextures
  preset,        \* the preset dictionary
  preset_file,   \* output/Presets/<saber_name>.json: "absent", "partial", "complete"
  exit_status,   \* -1 while running, then the exit status of the process
  stdout,        \* environment: the encoding of standard output
  cause,         \* history: what ended the process early, "" otherwise
  fin,           \* function under test: input name
  fid,           \* function under test: type and path_id of the fallback
  fout,          \* function under test: result
  fpc            \* function under test: "idle", "in", "once", "twice"

vars ==
  <<pc, unitypy, saber_files, bundle, folders, saber_name, env_objects, k,
    mesh_data, texture_data, geo_dir, tex_dir, geo_log, tex_log, preset,
    preset_file, exit_status, stdout, cause, fin, fid, fout, fpc>>

funvars == <<fin, fid, fout, fpc>>

runvars ==
  <<pc, unitypy, saber_files, bundle, folders, saber_name, env_objects, k,
    mesh_data, texture_data, geo_dir, tex_dir, geo_log, tex_log, preset,
    preset_file, exit_status, stdout, cause>>

OUTPUT_DIR == "output"
OUTPUT_GEO == "output/CustomGeometry"
OUTPUT_TEX == "output/CustomTextures"
OUTPUT_PRESETS == "output/Presets"

ObjExt == <<46,111,98,106>>
PngExt == <<46,112,110,103>>

\* obj.path_id of the object at position i of the bundle
PathIdAt(i) == IF i % 2 = 1 THEN 41 + i ELSE 0 - (5 + i)

\* a name that sanitizes to the letter n with tilde
NamePlain == [has_name |-> TRUE, name |-> <<241, 35>>]

\* the names decoded objects carry: none, NamePlain, one that sanitizes to
\* the empty string
ReadNames ==
  { [has_name |-> FALSE, name |-> <<>>],
    NamePlain,
    [has_name |-> TRUE, name |-> <<35>>] }

\* outcomes of data.export() and of the write that succeed: a str with a
\* two-byte character, a bytes value
MeshStr == [kind |-> "str", val |-> <<118, 233>>, disk |-> "ok", cut |-> 0]

MeshBytes == [kind |-> "bytes", val |-> <<255>>, disk |-> "ok", cut |-> 0]

\* outcomes that fail: export() or open() raises; an empty str; a str with a
\* lone surrogate; f.write() raises after cut bytes reached the file
MeshExportsBad ==
  { [kind |-> "throw", val |-> <<>>, disk |-> "ok", cut |-> 0],
    [kind |-> "str", val |-> <<>>, disk |-> "ok", cut |-> 0],
    [kind |-> "str", val |-> <<118, 55357>>, disk |-> "ok", cut |-> 0],
    [kind |-> "str", val |-> <<118, 128512>>, disk |-> "write", cut |-> 2] }

\* outcomes of data.image and the two img.save calls that succeed; val is the
\* PNG encoding of the image
ImageShort == [kind |-> "ok", val |-> <<137, 80>>, disk |-> "ok", cut |-> 0]

ImageLong == [kind |-> "ok", val |-> <<137, 80, 78, 71>>, disk |-> "ok", cut |-> 0]

\* outcomes that fail: data.image raises or the file cannot be opened; the
\* save to the file raises after cut bytes and leaves the file, or removes
\* it; the save to the file succeeds and the save to the buffer raises
ImageExportsBad ==
  { [kind |-> "throw", val |-> <<>>, disk |-> "ok", cut |-> 0],
    [kind |-> "ok", val |-> <<137, 80, 78>>, disk |-> "write", cut |-> 1],
    [kind |-> "ok", val |-> <<137, 80, 78>>, disk |-> "removed", cut |-> 0],
    [kind |-> "bufthrow", val |-> <<137, 80>>, disk |-> "ok", cut |-> 0] }

NoRead == [has_name |-> FALSE, name |-> <<>>]

\* the texts of the exceptions obj.read(), UnityPy.load and the preset
\* write raise: "bad", and the letter e with acute accent
ErrorTexts == { <<98, 97, 100>>, <<233>> }

\* no exception, no text
NoText == <<>>
NoExport == [kind |-> "throw", val |-> <<>>, disk |-> "ok", cut |-> 0]

ImageTypes == {"Texture2D", "Sprite"}

\* the objects a bundle can hold: an object of another type; for each
\* extracted type an object whose read() raises, with each text, objects of
\* every name with one payload, and objects named NamePlain with another
\* payload and with each failing outcome
ObjectShapes ==
  { [type |-> "Other", read_ok |-> FALSE, msg |-> NoText, read |-> NoRead,
     exp |-> NoExport] }
  \cup
  { [type |-> t, read_ok |-> FALSE, msg |-> m, read |-> NoRead, exp |-> NoExport] :
      t \in {"Mesh"} \cup ImageTypes, m \in ErrorTexts }
  \cup
  { [type |-> "Mesh", read_ok |-> TRUE, msg |-> NoText, read |-> r, exp |-> MeshStr] :
      r \in ReadNames }
  \cup
  { [type |-> "Mesh", read_ok |-> TRUE, msg |-> NoText, read |-> NamePlain,
     exp |-> e] : e \in {MeshBytes} \cup MeshExportsBad }
  \cup
  { [type |-> t, read_ok |-> TRUE, msg |-> NoText, read |-> r, exp |-> ImageShort] :
      t \in ImageTypes, r \in ReadNames }
  \cup
  { [type |-> t, read_ok |-> TRUE, msg |-> NoText, read |-> NamePlain, exp |-> e] :
      t \in ImageTypes, e \in {ImageLong} \cup ImageExportsBad }

Bundles == UNION { [1..n -> ObjectShapes] : n \in 0..MaxObjs }

EmptyPreset ==
  [Modules |-> <<>>, BinaryAssets |-> [Textures |-> <<>>, Geometry |-> <<>>]]

\* stems of the files of the input folder: "first", "second", and "sabr"
\* followed by e with acute accent
FirstFile == <<102, 105, 114, 115, 116>>
SecondFile == <<115, 101, 99, 111, 110, 100>>
AccentFile == <<115, 97, 98, 114, 233>>

RunInit ==
  /\ pc = "import"
  /\ unitypy \in BOOLEAN
  /\ saber_files \in {<<>>, <<FirstFile>>, <<FirstFile, SecondFile>>, <<AccentFile>>}
  /\ bundle \in {[valid |-> FALSE, objects |-> <<>>, msg |-> m] : m \in ErrorTexts}
                  \cup {[valid |-> TRUE, objects |-> b, msg |-> NoText] : b \in Bundles}
  /\ (~unitypy \/ saber_files # <<FirstFile>>) => bundle.objects = <<>>
  /\ folders = {}
  /\ saber_name = <<>>
  /\ env_objects = <<>>
  /\ k = 1
  /\ mesh_data = <<>>
  /\ texture_data = <<>>
  /\ geo_dir = {}
  /\ tex_dir = {}
  /\ geo_log = <<>>
  /\ tex_log = <<>>
  /\ preset = EmptyPreset
  /\ preset_file = "absent"
  /\ exit_status = -1
  /\ stdout \in {"utf-8", "ascii"}
  /\ cause = ""

FunIdle == fin = <<>> /\ fid = [type |-> "Mesh", path_id |-> 0] /\ fout = <<>> /\ fpc = "idle"

Init == RunInit /\ FunIdle

\* an error() that prints and returns
MutErrorReturns(next) == pc' = next /\ exit_status' = exit_status

\* error(msg): print and sys.exit(1); next is the section that would follow
error(next) == pc' = "exit" /\ exit_status' = 1

\* an exception no handler catches: traceback, exit status 1
Uncaught == pc' = "exit" /\ exit_status' = 1

\* whether print() can encode the text for standard output (the text holds
\* no surrogate here)
StdoutEncodes(text) == stdout = "utf-8" \/ \A i \in 1..Len(text) : text[i] < 128

\* lines 6-11: the import of UnityPy
ImportUnityPy ==
  /\ pc = "import"
  /\ IF unitypy THEN pc' = "setup" /\ exit_status' = exit_status /\ cause' = cause
     ELSE pc' = "exit" /\ exit_status' = 1 /\ cause' = "import"
  /\ UNCHANGED <<unitypy, saber_files, bundle, folders, saber_name, env_objects, k,
                 mesh_data, texture_data, geo_dir, tex_dir, geo_log, tex_log,
                 preset, preset_file, stdout>>
  /\ UNCHANGED funvars

\* the folders of the loop of line 23, in order
FolderList == <<OUTPUT_DIR, OUTPUT_GEO, OUTPUT_TEX, OUTPUT_PRESETS>>

\* lines 23-24: folder.mkdir(parents=True, exist_ok=True) for each folder; a
\* mkdir that raises (after n folders were made) is not caught
Setup ==
  /\ pc = "setup"
  /\ \E n \in 0..Len(FolderList) :
       /\ folders' = folders \cup {FolderList[i] : i \in 1..n}
       /\ IF n = Len(FolderList)
          THEN pc' = "find" /\ exit_status' = exit_status /\ cause' = cause
          ELSE Uncaught /\ cause' = "mkdir"
  /\ UNCHANGED <<unitypy, saber_files, bundle, saber_name, env_objects, k,
                 mesh_data, texture_data, geo_dir, tex_dir, geo_log, tex_log,
                 preset, preset_file, stdout>>
  /\ UNCHANGED funvars

\* lines 40-46; the log of line 46 prints the name of the file
FindSaberFile ==
  /\ pc = "find"
  /\ IF saber_files = <<>>
     THEN error("load") /\ saber_name' = saber_name /\ cause' = "nofile"
     ELSE /\ saber_name' = saber_files[1]
          /\ IF StdoutEncodes(saber_files[1])
             THEN pc' = "load" /\ exit_status' = exit_status /\ cause' = cause
             ELSE Uncaught /\ cause' = "print"
  /\ UNCHANGED <<unitypy, saber_files, bundle, folders, env_objects, k,
                 mesh_data, texture_data, geo_dir, tex_dir, geo_log, tex_log,
                 preset, preset_file, stdout>>
  /\ UNCHANGED funvars

\* lines 50-54; error() prints the text of the exception before it exits
LoadAssetBundle ==
  /\ pc = "load"
  /\ IF bundle.valid
     THEN /\ pc' = "meshes" /\ env_objects' = bundle.objects
          /\ exit_status' = exit_status /\ cause' = cause
     ELSE /\ env_objects' = env_objects
          /\ IF StdoutEncodes(bundle.msg)
             THEN error("meshes") /\ cause' = "load"
             ELSE Uncaught /\ cause' = "print"
  /\ k' = 1
  /\ UNCHANGED <<unitypy, saber_files, bundle, folders, saber_name,
                 mesh_data, texture_data, geo_dir, tex_dir, geo_log, tex_log,
                 preset, preset_file, stdout>>
  /\ UNCHANGED funvars

\* open(path, 'wb') + write, img.save(path): the file is created or replaced
WriteFile(dir, filename, bytes) ==
  {f \in dir : f.filename # filename} \cup {[filename |-> filename, bytes |-> bytes]}

\* the file is removed, if there is one
RemoveFile(dir, filename) == {f \in dir : f.filename # filename}

\* the except blocks of the three loops, the empty-export branch and the
\* objects of another type: warn (or nothing) and go on with the next object
SkipObject ==
  /\ pc' = pc
  /\ exit_status' = exit_status
  /\ cause' = cause
  /\ k' = k + 1
  /\ UNCHANGED <<mesh_data, texture_data, geo_dir, tex_dir, geo_log, tex_log>>

\* lines 100-101, 142-143, 183-184: the warn of the outer except block
\* prints the text of the exception of obj.read(); the block is outside any
\* try, so a text that standard output cannot encode ends the run
ReadFailed(obj) ==
  IF StdoutEncodes(obj.msg)
  THEN SkipObject
  ELSE /\ Uncaught
       /\ cause' = "print"
       /\ k' = k
       /\ UNCHANGED <<mesh_data, texture_data, geo_dir, tex_dir, geo_log, tex_log>>

\* lines 88-94: the record of one mesh
MeshRecord(clean, original, obj_bytes) ==
  [name |-> clean, filename |-> clean \o ObjExt, data |-> Base64Text(obj_bytes),
   original_name |-> original]

\* lines 131-138, 172-179: the record of one texture or sprite
ImageRecord(clean, original, png) ==
  [name |-> clean, filename |-> clean \o PngExt, data |-> Base64Text(png),
   original_name |-> original]

\* lines 61-101: one iteration of the mesh loop.  A log or warn line that
\* standard output cannot encode raises inside the try blocks: the handlers
\* of lines 98 and 100 catch it and nothing else changes.
ExtractMesh ==
  /\ pc = "meshes"
  /\ k <= Len(env_objects)
  /\ LET obj == env_objects[k]
         fallback == Fallback("Mesh", PathIdAt(k))
         mesh_name == ResolveName(obj.read.has_name, obj.read.name, fallback)
         mesh_name_clean == Sanitize(mesh_name, fallback)
         obj_bytes == ToBytes(obj.exp)
     IN  IF obj.type = "Mesh" /\ ~obj.read_ok
         THEN ReadFailed(obj)
         ELSE IF obj.type = "Mesh" /\ obj.exp.kind # "throw"
            /\ obj.exp.val # <<>> /\ BytesOk(obj.exp)
         THEN IF obj.exp.disk = "ok"
              THEN /\ geo_dir' = WriteFile(geo_dir, mesh_name_clean \o ObjExt, obj_bytes)
                   /\ geo_log' = Append(geo_log, mesh_name_clean \o ObjExt)
                   /\ mesh_data' = Append(mesh_data,
                                          MeshRecord(mesh_name_clean, mesh_name, obj_bytes))
                   /\ k' = k + 1
                   /\ UNCHANGED <<pc, exit_status, cause, texture_data, tex_dir,
                                  tex_log>>
              ELSE \* open() made the file, f.write() raised part-way
                   /\ geo_dir' = WriteFile(geo_dir, mesh_name_clean \o ObjExt,
                                           SubSeq(obj_bytes, 1, obj.exp.cut))
                   /\ geo_log' = Append(geo_log, mesh_name_clean \o ObjExt)
                   /\ k' = k + 1
                   /\ UNCHANGED <<pc, exit_status, cause, mesh_data, texture_data,
                                  tex_dir, tex_log>>
         ELSE SkipObject
  /\ UNCHANGED <<unitypy, saber_files, bundle, folders, saber_name, env_objects,
                 preset, preset_file, stdout>>
  /\ UNCHANGED funvars

\* the mesh loop is exhausted; line 105-106
MeshesDone ==
  /\ pc = "meshes"
  /\ k > Len(env_objects)
  /\ pc' = "textures"
  /\ k' = 1
  /\ UNCHANGED <<unitypy, saber_files, bundle, folders, saber_name, env_objects,
                 mesh_data, texture_data, geo_dir, tex_dir, geo_log, tex_log,
                 preset, preset_file, exit_status, stdout, cause>>
  /\ UNCHANGED funvars

\* the body shared by the texture loop and the sprite loop
ExtractImage(type) ==
  LET obj == env_objects[k]
      fallback == Fallback(type, PathIdAt(k))
      tex_name == ResolveName(obj.read.has_name, obj.read.name, fallback)
      tex_name_clean == Sanitize(tex_name, fallback)
      started == obj.type = type /\ obj.read_ok /\ obj.exp.kind # "throw"
  IN  IF obj.type = type /\ ~obj.read_ok
      THEN ReadFailed(obj)
      ELSE IF started /\ obj.exp.kind = "ok" /\ obj.exp.disk = "ok"
      THEN /\ tex_dir' = WriteFile(tex_dir, tex_name_clean \o PngExt, obj.exp.val)
           /\ tex_log' = Append(tex_log, tex_name_clean \o PngExt)
           /\ texture_data' = Append(texture_data,
                                     ImageRecord(tex_name_clean, tex_name, obj.exp.val))
           /\ k' = k + 1
           /\ UNCHANGED <<pc, exit_status, cause, mesh_data, geo_dir, geo_log>>
      ELSE IF started /\ obj.exp.kind = "bufthrow"
      THEN \* img.save(tex_file) succeeded, img.save(buffer) raised
           /\ tex_dir' = WriteFile(tex_dir, tex_name_clean \o PngExt, obj.exp.val)
           /\ tex_log' = Append(tex_log, tex_name_clean \o PngExt)
           /\ k' = k + 1
           /\ UNCHANGED <<pc, exit_status, cause, mesh_data, texture_data, geo_dir,
                          geo_log>>
      ELSE IF started /\ obj.exp.disk = "write"
      THEN \* img.save(tex_file) raised part-way and left the file
           /\ tex_dir' = WriteFile(tex_dir, tex_name_clean \o PngExt,
                                   SubSeq(obj.exp.val, 1, obj.exp.cut))
           /\ tex_log' = Append(tex_log, tex_name_clean \o PngExt)
           /\ k' = k + 1
           /\ UNCHANGED <<pc, exit_status, cause, mesh_data, texture_data, geo_dir,
                          geo_log>>
      ELSE IF started /\ obj.exp.disk = "removed"
      THEN \* img.save(tex_file) raised part-way and removed the file
           /\ tex_dir' = RemoveFile(tex_dir, tex_name_clean \o PngExt)
           /\ tex_log' = Append(tex_log, tex_name_clean \o PngExt)
           /\ k' = k + 1
           /\ UNCHANGED <<pc, exit_status, cause, mesh_data, texture_data, geo_dir,
                          geo_log>>
      ELSE SkipObject

\* lines 108-143: one iteration of the texture loop
ExtractTexture ==
  /\ pc = "textures"
  /\ k <= Len(env_objects)
  /\ ExtractImage("Texture2D")
  /\ UNCHANGED <<unitypy, saber_files, bundle, folders, saber_name, env_objects,
                 preset, preset_file, stdout>>
  /\ UNCHANGED funvars

\* the texture loop is exhausted; line 147
TexturesDone ==
  /\ pc = "textures"
  /\ k > Len(env_objects)
  /\ pc' = "sprites"
  /\ k' = 1
  /\ UNCHANGED <<unitypy, saber_files, bundle, folders, saber_name, env_objects,
                 mesh_data, texture_data, geo_dir, tex_dir, geo_log, tex_log,
                 preset, preset_file, exit_status, stdout, cause>>
  /\ UNCHANGED funvars

\* lines 149-184: one iteration of the sprite loop
ExtractSprite ==
  /\ pc = "sprites"
  /\ k <= Len(env_objects)
  /\ ExtractImage("Sprite")
  /\ UNCHANGED <<unitypy, saber_files, bundle, folders, saber_name, env_objects,
                 preset, preset_file, stdout>>
  /\ UNCHANGED funvars

\* the sprite loop is exhausted; lines 188-193
SpritesDone ==
  /\ pc = "sprites"
  /\ k > Len(env_objects)
  /\ pc' = "generate"
  /\ k' = 1
  /\ UNCHANGED <<unitypy, saber_files, bundle, folders, saber_name, env_objects,
                 mesh_data, texture_data, geo_dir, tex_dir, geo_log, tex_log,
                 preset, preset_file, exit_status, stdout, cause>>
  /\ UNCHANGED funvars

\* line 215: texture_data[0]["filename"] if texture_data else ""
TrailTexture(td) == IF td # <<>> THEN td[1].filename ELSE <<>>

\* lines 236-357: the trail module (the fixed literals other than the ids,
\* the version, the name and the children are left out)
TrailModule(trail_texture) ==
  [ModuleId |-> "reezonate.simple-trail", Version |-> 1, Name |-> "Trail",
   customTextureId |-> trail_texture, opacityTextureId |-> trail_texture,
   Children |-> <<>>]

\* a custom-model module that refers to the mesh by its name, not its filename
MutCustomModelByName(mesh) ==
  [ModuleId |-> "reezonate.custom-model", Version |-> 1, Name |-> "Custom Model",
   modelId |-> mesh.name, Children |-> <<>>]

\* lines 361-456: the custom-model module of one mesh
CustomModelModule(mesh) ==
  [ModuleId |-> "reezonate.custom-model", Version |-> 1, Name |-> "Custom Model",
   modelId |-> mesh.filename, Children |-> <<>>]

\* lines 463-466, 470-473: the manifest entry of one record
BinaryAsset(rec) == [AssetName |-> rec.filename, Data |-> rec.data]

\* a module list that gets the new module at the front
MutPrepend(modules, module) == <<module>> \o modules

\* preset["Modules"].append(module)
AppendModule(modules, module) == Append(modules, module)

\* lines 215-357: the preset dictionary with the trail module
GenerateTrail ==
  /\ pc = "generate"
  /\ preset' = [EmptyPreset EXCEPT
                  !.Modules = AppendModule(@, TrailModule(TrailTexture(texture_data)))]
  /\ pc' = "modules"
  /\ k' = 1
  /\ UNCHANGED <<unitypy, saber_files, bundle, folders, saber_name, env_objects,
                 mesh_data, texture_data, geo_dir, tex_dir, geo_log, tex_log,
                 preset_file, exit_status, stdout, cause>>
  /\ UNCHANGED funvars

\* lines 360-466: one iteration of "for mesh in mesh_data"; the log of line
\* 460, between the two appends, is outside any try block
AddMeshModule ==
  /\ pc = "modules"
  /\ k <= Len(mesh_data)
  /\ IF StdoutEncodes(mesh_data[k].name)
     THEN /\ preset' = [preset EXCEPT
                  !.Modules = AppendModule(@, CustomModelModule(mesh_data[k])),
                  !.BinaryAssets.Geometry = Append(@, BinaryAsset(mesh_data[k]))]
          /\ k' = k + 1
          /\ UNCHANGED <<pc, exit_status, cause>>
     ELSE /\ preset' = [preset EXCEPT
                  !.Modules = AppendModule(@, CustomModelModule(mesh_data[k]))]
          /\ k' = k
          /\ Uncaught
          /\ cause' = "print"
  /\ UNCHANGED <<unitypy, saber_files, bundle, folders, saber_name, env_objects,
                 mesh_data, texture_data, geo_dir, tex_dir, geo_log, tex_log,
                 preset_file, stdout>>
  /\ UNCHANGED funvars

ModulesDone ==
  /\ pc = "modules"
  /\ k > Len(mesh_data)
  /\ pc' = "assets"
  /\ k' = 1
  /\ UNCHANGED <<unitypy, saber_files, bundle, folders, saber_name, env_objects,
                 mesh_data, texture_data, geo_dir, tex_dir, geo_log, tex_log,
                 preset, preset_file, exit_status, stdout, cause>>
  /\ UNCHANGED funvars

\* lines 469-473: one iteration of "for texture in texture_data"
AddTextureAsset ==
  /\ pc = "assets"
  /\ k <= Len(texture_data)
  /\ preset' = [preset EXCEPT
                  !.BinaryAssets.Textures = Append(@, BinaryAsset(texture_data[k]))]
  /\ k' = k + 1
  /\ UNCHANGED <<pc, unitypy, saber_files, bundle, folders, saber_name, env_objects,
                 mesh_data, texture_data, geo_dir, tex_dir, geo_log, tex_log,
                 preset_file, exit_status, stdout, cause>>
  /\ UNCHANGED funvars

AssetsDone ==
  /\ pc = "assets"
  /\ k > Len(texture_data)
  /\ pc' = "save"
  /\ k' = 1
  /\ UNCHANGED <<unitypy, saber_files, bundle, folders, saber_name, env_objects,
                 mesh_data, texture_data, geo_dir, tex_dir, geo_log, tex_log,
                 preset, preset_file, exit_status, stdout, cause>>
  /\ UNCHANGED funvars

\* lines 476-482: open and json.dump; the write succeeds, or fails before the
\* file exists, or fails after it was opened; error() prints the text of the
\* exception before it exits
SavePreset ==
  /\ pc = "save"
  /\ \E outcome \in {"complete", "absent", "partial"}, text \in ErrorTexts :
       /\ preset_file' = outcome
       /\ IF outcome = "complete"
          THEN pc' = "report" /\ exit_status' = exit_status /\ cause' = cause
          ELSE IF StdoutEncodes(text)
          THEN error("report") /\ cause' = "save"
          ELSE Uncaught /\ cause' = "print"
  /\ UNCHANGED <<unitypy, saber_files, bundle, folders, saber_name, env_objects, k,
                 mesh_data, texture_data, geo_dir, tex_dir, geo_log, tex_log, preset,
                 stdout>>
  /\ UNCHANGED funvars

\* the check mark of the log line of line 484
CheckMark == <<9989>>

\* lines 484-491: the closing log lines, outside any try block; the script
\* ends with exit status 0 when they can be printed
Finish ==
  /\ pc = "report"
  /\ IF StdoutEncodes(CheckMark)
     THEN pc' = "done" /\ exit_status' = 0 /\ cause' = cause
     ELSE Uncaught /\ cause' = "print"
  /\ UNCHANGED <<unitypy, saber_files, bundle, folders, saber_name, env_objects, k,
                 mesh_data, texture_data, geo_dir, tex_dir, geo_log, tex_log,
                 preset, preset_file, stdout>>
  /\ UNCHANGED funvars

Next ==
  \/ ImportUnityPy
  \/ Setup
  \/ FindSaberFile
  \/ LoadAssetBundle
  \/ ExtractMesh
  \/ MeshesDone
  \/ ExtractTexture
  \/ TexturesDone
  \/ ExtractSprite
  \/ SpritesDone
  \/ GenerateTrail
  \/ AddMeshModule
  \/ ModulesDone
  \/ AddTextureAsset
  \/ AssetsDone
  \/ SavePreset
  \/ Finish

Spec == Init /\ [][Next]_vars

(***************************************************************************)
(* The pure functions on their own: sanitizing and categorizing applied to *)
(* names drawn from bounded sets.                                          *)
(***************************************************************************)
\* the run is not under way in the specifications of the pure functions
RunIdle ==
  /\ pc = "idle"
  /\ unitypy = TRUE
  /\ saber_files = <<>>
  /\ bundle = [valid |-> FALSE, objects |-> <<>>, msg |-> <<98, 97, 100>>]
  /\ folders = {}
  /\ saber_name = <<>>
  /\ env_objects = <<>>
  /\ k = 1
  /\ mesh_data = <<>>
  /\ texture_data = <<>>
  /\ geo_dir = {}
  /\ tex_dir = {}
  /\ geo_log = <<>>
  /\ tex_log = <<>>
  /\ preset = EmptyPreset
  /\ preset_file = "absent"
  /\ exit_status = -1
  /\ stdout = "utf-8"
  /\ cause = ""

\* characters of the names sanitized: two letters, a digit, the three kept
\* punctuation characters, a dropped one, a tab, e with acute accent and the
\* no-break space
SanAlphabet == {97, 90, 55, 32, 45, 95, 35, 9, 233, 160}

SanNames == UNION { [1..n -> SanAlphabet] : n \in 0..MaxNameLen }

SanPathIds == {42, 0 - 7, 0, 105}

SanTypes == {"Mesh", "Texture2D", "Sprite"}

InitSan ==
  /\ RunIdle
  /\ fin \in SanNames
  /\ fid \in [type : SanTypes, path_id : SanPathIds]
  /\ fout = <<>>
  /\ fpc = "in"

\* name resolution and sanitizing of one decoded name (lines 65-70, 112-117,
\* 153-158)
SanitizeName ==
  /\ fpc = "in"
  /\ LET fallback == Fallback(fid.type, fid.path_id)
     IN  fout' = <<Sanitize(ResolveName(TRUE, fin, fallback), fallback)>>
  /\ fpc' = "once"
  /\ UNCHANGED <<fin, fid>>
  /\ UNCHANGED runvars

\* the sanitizing statements applied to their own result
SanitizeAgain ==
  /\ fpc = "once"
  /\ LET fallback == Fallback(fid.type, fid.path_id)
     IN  fout' = Append(fout, Sanitize(fout[1], fallback))
  /\ fpc' = "twice"
  /\ UNCHANGED <<fin, fid>>
  /\ UNCHANGED runvars

NextSan == SanitizeName \/ SanitizeAgain

SpecSan == InitSan /\ [][NextSan]_vars

\* pieces of mesh names: keywords in several letter cases, fragments that
\* form a keyword only when joined, filler, and a fragment with the capital
\* dotted I (U+0130)
CatTokens ==
  { <<72,105,76,116>>, <<72,97,110,100,108,101>>, <<71,82,73,80>>,
    <<103,117,97,114,100>>, <<80,111,109,109,101,108>>,
    <<101,109,105,116,116,101,114>>, <<98,108,97,100,101>>,
    <<66,69,65,77>>, <<71,108,111,119>>, <<108,97,115,101,114>>,
    <<104,105,108>>, <<116>>, <<98,108,97>>, <<100,101>>, <<120>>, <<95>>,
    <<32>>, <<104,304>>, <<108,116>> }

RECURSIVE Concat(_)
Concat(ws) == IF ws = <<>> THEN <<>> ELSE Head(ws) \o Concat(Tail(ws))

CatNames == { Concat(ws) : ws \in UNION { [1..n -> CatTokens] : n \in 0..MaxTokens } }

InitCat ==
  /\ RunIdle
  /\ fin \in CatNames
  /\ fid = [type |-> "Mesh", path_id |-> 0]
  /\ fout = <<>>
  /\ fpc = "in"

\* a call of categorize_mesh
Categorize ==
  /\ fpc = "in"
  /\ fout' = <<categorize_mesh(fin)>>
  /\ fpc' = "once"
  /\ UNCHANGED <<fin, fid>>
  /\ UNCHANGED runvars

NextCat == Categorize

SpecCat == InitCat /\ [][NextCat]_vars

(***************************************************************************)
(* Properties of the run.                                                  *)
(***************************************************************************)
Objs == bundle.objects

\* the environment lets the run get past the loading of the bundle: UnityPy
\* is there, a file is found and its name can be logged, the bundle is valid
Loaded ==
  /\ unitypy
  /\ saber_files # <<>>
  /\ StdoutEncodes(saber_files[1])
  /\ bundle.valid

\* object i is a mesh whose read, export, encoding and write succeed, with a
\* non-empty payload
MeshOk(i) ==
  /\ Objs[i].type = "Mesh"
  /\ Objs[i].read_ok
  /\ Objs[i].exp.kind # "throw"
  /\ Objs[i].exp.val # <<>>
  /\ BytesOk(Objs[i].exp)
  /\ Objs[i].exp.disk = "ok"

\* object i is a texture or sprite whose read, image and both saves succeed
ImageOk(i) ==
  /\ Objs[i].type \in {"Texture2D", "Sprite"}
  /\ Objs[i].read_ok
  /\ Objs[i].exp.kind = "ok"
  /\ Objs[i].exp.disk = "ok"

\* object i is of an extracted type and its read or export fails, or its
\* export is empty
Failing(i) ==
  /\ Objs[i].type \in {"Mesh", "Texture2D", "Sprite"}
  /\ ~MeshOk(i)
  /\ ~ImageOk(i)

\* the name under which object i is stored
StoredName(i) ==
  LET fb == Fallback(Objs[i].type, PathIdAt(i))
  IN  Sanitize(ResolveName(Objs[i].read.has_name, Objs[i].read.name, fb), fb)

\* position of mesh i among the extracted meshes
MeshRank(i) == Cardinality({j \in 1..i : MeshOk(j)})

\* position of texture or sprite i among the extracted textures and sprites:
\* the textures in bundle order, then the sprites in bundle order
ImageRank(i) ==
  IF Objs[i].type = "Texture2D"
  THEN Cardinality({j \in 1..i : ImageOk(j) /\ Objs[j].type = "Texture2D"})
  ELSE Cardinality({j \in 1..Len(Objs) : ImageOk(j) /\ Objs[j].type = "Texture2D"})
       + Cardinality({j \in 1..i : ImageOk(j) /\ Objs[j].type = "Sprite"})

Geometry == preset.BinaryAssets.Geometry
Textures == preset.BinaryAssets.Textures

\* C1: in the preset of a completed run every custom-model module's modelId
\* is the AssetName of a Geometry entry, and the two texture ids of the trail
\* module are the AssetName of a Textures entry, or the empty string exactly
\* when no texture or sprite was extracted.
C1_ReferencesResolve ==
  pc = "done" =>
    \A i \in 1..Len(preset.Modules) :
      LET m == preset.Modules[i]
      IN  /\ m.ModuleId = "reezonate.custom-model" =>
               \E g \in 1..Len(Geometry) : Geometry[g].AssetName = m.modelId
          /\ m.ModuleId = "reezonate.simple-trail" =>
               /\ m.customTextureId = m.opacityTextureId
               /\ (m.customTextureId = <<>>) <=> (texture_data = <<>>)
               /\ m.customTextureId # <<>> =>
                    \E t \in 1..Len(Textures) : Textures[t].AssetName = m.customTextureId

C1_Witness ==
  /\ pc = "done"
  /\ Len(preset.Modules) >= 2
  /\ preset.Modules[1].customTextureId # <<>>

\* C2: the Modules list of a completed run is the trail module followed by
\* one custom-model module per successfully extracted mesh, in bundle order,
\* so its length is one plus the number of extracted meshes whatever the
\* number of textures and sprites.
C2_ModuleList ==
  pc = "done" =>
    /\ Len(preset.Modules) = 1 + Cardinality({i \in 1..Len(Objs) : MeshOk(i)})
    /\ preset.Modules[1].ModuleId = "reezonate.simple-trail"
    /\ \A i \in 1..Len(Objs) :
         MeshOk(i) =>
           /\ preset.Modules[1 + MeshRank(i)].ModuleId = "reezonate.custom-model"
           /\ preset.Modules[1 + MeshRank(i)].modelId = StoredName(i) \o ObjExt

C2_Witness ==
  /\ pc = "done"
  /\ Len(preset.Modules) = 3
  /\ preset.Modules[2].modelId # preset.Modules[3].modelId
  /\ texture_data = <<>>

\* the number of times a filename was written in a folder
Writes(log, filename) == Cardinality({i \in 1..Len(log) : log[i] = filename})

\* the entries of a manifest list match, in decoded length, the files of dir
SizesMatch(assets, dir, entries) ==
  \A i \in entries :
    \E f \in dir :
      /\ f.filename = assets[i].AssetName
      /\ Len(B64Decode(assets[i].Data)) = Len(f.bytes)

\* no object of the bundle fails in a write or in the encoding to the
\* memory buffer
NoBufferFailure ==
  \A i \in 1..Len(Objs) : Objs[i].exp.kind # "bufthrow" /\ Objs[i].exp.disk = "ok"

\* C3 as stated: after a completed run the decoded Data of every manifest
\* entry has the length of the file on disk under its AssetName, also when
\* two objects resolve to the same filename (checked on the runs in which
\* every write and every encoding to the memory buffer succeeds).
C3_AllSizesMatch ==
  (pc = "done" /\ NoBufferFailure) =>
    /\ SizesMatch(Geometry, geo_dir, 1..Len(Geometry))
    /\ SizesMatch(Textures, tex_dir, 1..Len(Textures))

\* C3 amended: the decoded Data of a manifest entry has the length of the
\* file on disk under its AssetName whenever that filename was written by
\* one object only.
C3_UniqueSizesMatch ==
  pc = "done" =>
    /\ SizesMatch(Geometry, geo_dir,
                  {i \in 1..Len(Geometry) : Writes(geo_log, Geometry[i].AssetName) = 1})
    /\ SizesMatch(Textures, tex_dir,
                  {i \in 1..Len(Textures) : Writes(tex_log, Textures[i].AssetName) = 1})

C3_Witness ==
  /\ pc = "done"
  /\ \E i \in 1..Len(Geometry) :
       /\ Writes(geo_log, Geometry[i].AssetName) = 1
       /\ Len(B64Decode(Geometry[i].Data)) = 3
  /\ \E i \in 1..Len(Textures) : Writes(tex_log, Textures[i].AssetName) = 1

\* the run got as far as the extraction loops
Extracting ==
  /\ Loaded
  /\ cause \notin {"import", "mkdir"}
  /\ pc \notin {"import", "setup", "find", "load"}

\* the records are those of the objects that did not fail, in encounter order
RecordsInOrder ==
  /\ (Extracting /\ pc # "meshes") =>
       /\ Len(mesh_data) = Cardinality({i \in 1..Len(Objs) : MeshOk(i)})
       /\ \A i \in 1..Len(Objs) :
            MeshOk(i) =>
              /\ mesh_data[MeshRank(i)].filename = StoredName(i) \o ObjExt
              /\ B64Decode(mesh_data[MeshRank(i)].data) = ToBytes(Objs[i].exp)
  /\ (Extracting /\ pc \notin {"meshes", "textures", "sprites"}) =>
       /\ Len(texture_data) = Cardinality({i \in 1..Len(Objs) : ImageOk(i)})
       /\ \A i \in 1..Len(Objs) :
            ImageOk(i) =>
              /\ texture_data[ImageRank(i)].filename = StoredName(i) \o PngExt
              /\ B64Decode(texture_data[ImageRank(i)].data) = Objs[i].exp.val

\* C4: when the read or export of an object fails, or a mesh exports an
\* empty payload, the object contributes no record, the later objects are
\* still processed and recorded in encounter order, the run reaches the
\* preset write and it ends with exit status zero.
C4_FailureExitsZero ==
  (/\ Extracting
   /\ pc \in {"done", "exit"}
   /\ \E i \in 1..Len(Objs) : Failing(i)) =>
    /\ RecordsInOrder
    /\ preset_file # "absent" \/ cause = "save"
    /\ exit_status = 0

\* nothing but the empty output folders has been made
OnlySkeleton ==
  /\ folders = {OUTPUT_DIR, OUTPUT_GEO, OUTPUT_TEX, OUTPUT_PRESETS}
  /\ geo_dir = {} /\ tex_dir = {}
  /\ geo_log = <<>> /\ tex_log = <<>>
  /\ mesh_data = <<>> /\ texture_data = <<>>
  /\ k = 1
  /\ preset = EmptyPreset
  /\ preset_file = "absent"

\* the script got as far as the search for the input file
Searched ==
  /\ cause \notin {"import", "mkdir"}
  /\ pc \notin {"import", "setup", "find"}

\* C5: a fatal condition ends the process at once with a non-zero exit
\* status; after a missing input file or a load failure no extraction step
\* has run, no asset file and no preset file is written and the output
\* directory holds only the empty folders; a failed preset write ends the
\* process too.
C5_FatalStops ==
  /\ pc = "exit" => exit_status # 0 /\ exit_status # -1 /\ ~ENABLED Next
  /\ (Searched /\ saber_files = <<>>) =>
       pc = "exit" /\ cause = "nofile" /\ OnlySkeleton
  /\ (Searched /\ saber_files # <<>> /\ ~bundle.valid /\ pc # "load") =>
       pc = "exit" /\ cause \in {"load", "print"} /\ OnlySkeleton
  /\ (pc \in {"report", "done"} \/ preset_file # "absent") =>
       (preset_file = "complete" \/ (pc = "exit" /\ cause \in {"save", "print"}))
  /\ cause \in {"nofile", "load", "save"} => pc = "exit"

C5_Witness ==
  /\ pc = "exit"
  /\ cause = "load"
  /\ saber_files # <<>>
  /\ ~bundle.valid
  /\ folders # {}

\* C9: a skipped object leaves no file: every file of the two asset folders
\* has a record of that filename once its object has been processed.
C9_NoFileWithoutRecord ==
  /\ \A f \in geo_dir : \E i \in 1..Len(mesh_data) : mesh_data[i].filename = f.filename
  /\ \A f \in tex_dir :
       \E i \in 1..Len(texture_data) : texture_data[i].filename = f.filename

\* the last entry of a manifest list that carries the AssetName of entry i
LastWithName(assets, i) ==
  CHOOSE j \in 1..Len(assets) :
    /\ assets[j].AssetName = assets[i].AssetName
    /\ \A h \in (j + 1)..Len(assets) : assets[h].AssetName # assets[i].AssetName

\* every filename of the manifest list has one file, holding the payload of
\* the last entry with that filename
LastWins(assets, dir) ==
  \A i \in 1..Len(assets) :
    /\ Cardinality({f \in dir : f.filename = assets[i].AssetName}) = 1
    /\ \A f \in dir :
         f.filename = assets[i].AssetName =>
           f.bytes = B64Decode(assets[LastWithName(assets, i)].Data)

\* C10: names are not deduplicated: every successfully exported object has
\* its own manifest entry with its own Data (and every mesh its module),
\* while the folder holds one file per filename, with the payload of the
\* last such object processed.
C10_DuplicatesKeptLastWins ==
  pc = "done" =>
    /\ RecordsInOrder
    /\ Len(Geometry) = Len(mesh_data)
    /\ Len(Textures) = Len(texture_data)
    /\ \A i \in 1..Len(mesh_data) : Geometry[i] = BinaryAsset(mesh_data[i])
    /\ \A i \in 1..Len(texture_data) : Textures[i] = BinaryAsset(texture_data[i])
    /\ Len(preset.Modules) = 1 + Len(mesh_data)
    /\ LastWins(Geometry, geo_dir)
    /\ LastWins(Textures, tex_dir)

(***************************************************************************)
(* Properties of the pure functions.                                       *)
(***************************************************************************)
\* an alphanumeric character, a space, a hyphen or an underscore
AllowedChar(c) == IsAlnum(c) \/ c = 32 \/ c = 45 \/ c = 95

\* the positions of name that survive: allowed characters from the first to
\* the last allowed character that is not a space
CorePositions(name) ==
  LET solid == {i \in 1..Len(name) : AllowedChar(name[i]) /\ name[i] # 32}
  IN  {i \in 1..Len(name) :
         /\ AllowedChar(name[i])
         /\ \E j \in solid : j <= i
         /\ \E j \in solid : j >= i}

\* C6: the stored name is the resolved name reduced to its alphanumerics,
\* spaces, hyphens and underscores and stripped; when nothing is left it is
\* the synthesized "{lowercasetype}_{identityHandle}" (a mesh named "###"
\* with handle 42 gets mesh_42.obj); it is never empty and holds only
\* allowed characters.
C6_SanitizedName ==
  fpc = "once" =>
    LET r == fout[1]
        core == CorePositions(fin)
    IN  /\ r # <<>>
        /\ \A i \in 1..Len(r) : AllowedChar(r[i])
        /\ core = {} => r = TypePrefix(fid.type) \o <<95>> \o IntStr(fid.path_id)
        /\ core # {} =>
             /\ Len(r) = Cardinality(core)
             /\ \A i \in core : r[Cardinality({j \in core : j <= i})] = fin[i]
        /\ (fin = <<35, 35, 35>> /\ fid = [type |-> "Mesh", path_id |-> 42]) =>
             r \o ObjExt = <<109, 101, 115, 104, 95, 52, 50, 46, 111, 98, 106>>

C6_Witness ==
  /\ fpc = "once"
  /\ fin = <<35, 35, 35>>
  /\ fid = [type |-> "Mesh", path_id |-> 42]
  /\ fout = << <<109, 101, 115, 104, 95, 52, 50>> >>

\* C7: sanitizing is idempotent: sanitizing a sanitized name again, with the
\* same synthesized fallback, gives the same name.
C7_Idempotent == fpc = "twice" => fout[2] = fout[1]

C7_Witness ==
  /\ fpc = "twice"
  /\ fin = <<160, 233, 32>>
  /\ fout = << <<233>>, <<233>> >>

\* the same letter, whatever the case
SameLetter(a, b) == a = b \/ LowerChar(a) = <<b>> \/ LowerChar(b) = <<a>>

\* word occurs in name, in any letter case
OccursAnyCase(word, name) ==
  \E i \in 0..(Len(name) - Len(word)) :
    \A j \in 1..Len(word) : SameLetter(name[i + j], word[j])

HasHiltWord(name) == \E w \in HiltKeywords : OccursAnyCase(w, name)
HasBladeWord(name) == \E w \in BladeKeywords : OccursAnyCase(w, name)

\* C8: categorize_mesh gives "hilt" for a name with a hilt keyword in any
\* letter case (also next to a blade keyword), "blade" for a name with a
\* blade keyword and no hilt keyword, and "hilt" for the empty name and for
\* a name with no keyword.
C8_Categorize ==
  fpc = "once" =>
    /\ HasHiltWord(fin) => fout[1] = "hilt"
    /\ (HasBladeWord(fin) /\ ~HasHiltWord(fin)) => fout[1] = "blade"
    /\ (~HasBladeWord(fin) /\ ~HasHiltWord(fin)) => fout[1] = "hilt"
    /\ fin = <<>> => fout[1] = "hilt"

C8_Witness ==
  /\ fpc = "once"
  /\ HasHiltWord(fin)
  /\ HasBladeWord(fin)
  /\ fin # Lower(fin)
  /\ fout = <<"hilt">>

====
